---- MODULE Spec2Model ----
(***************************************************************************)
(* daniarmas/clogg: an asynchronous logger.  Caller goroutines push log    *)
(* records on a buffered channel (logChan); one goroutine (processLogs)    *)
(* drains it into the slog handler.  GetLogger builds the process-wide     *)
(* Logger under a sync.Once; Shutdown closes logChan and waits for done.   *)
(*                                                                         *)
(* Goroutines interleave at the granularity of one channel operation, one  *)
(* handler call or one sleep.  A state whose pc is "warn", "err" (caller)  *)
(* or "emit" (worker) is a state in which that goroutine is inside the     *)
(* handler call; the action that leaves it is the call's return.           *)
(* An unrecovered Go panic terminates the process: once fault is set no    *)
(* action is enabled.                                                      *)
(*                                                                         *)
(* The handler is opaque: emitted and reported record, per goroutine, the  *)
(* LogAttrs calls that returned.  A later GetLogger call is one step: the  *)
(* once gate is done and globalLogger no longer changes.                   *)
(*                                                                         *)
(* Spec has callers log through info/Info only; SpecLevels has them use    *)
(* all four levels and attribute lists; FairSpec is Spec under the         *)
(* scheduler's fairness, CallerFairSpec is Spec with fairness for the      *)
(* callers only (processLogs may never be scheduled).  given remembers the *)
(* record every logging call was made with.                                *)
(***************************************************************************)
EXTENDS Integers, Sequences, FiniteSets

\* ---------------------------------------------------------------- bounds
NThreads == 2
MaxMsgs == 2

\* ---------------------------------------------------- program constants
maxRetries == 3
DefaultBufferSize == 100
RetryDelayMs == 10

Threads == 1..NThreads
NULL == 0
TheLogger == 1

\* LoggerConfig values the callers pass.  "nil" is the nil slog.Handler,
\* "json" the slog.NewJSONHandler(os.Stdout, nil) GetLogger builds itself.
BufferSizes == {-1, 0, 1, 2}
Handlers == {"nil", "h1"}
LoggerConfig == [BufferSize : BufferSizes, Handler : Handlers]
NoConfig == [BufferSize |-> 0, Handler |-> "nil"]

Levels == {"Debug", "Info", "Warn", "Error"}
AttrLists == {<< >>, <<"a", "a", "b">>}

\* A message text names its caller and the caller's running number, so
\* that every logging call carries a different message.
MsgIds == Threads \X (1..MaxMsgs)
NoLog == [Level |-> "none", Msg |-> <<0, 0>>, Attrs |-> << >>]

VARIABLES
    once,          \* sync.Once: "new", "running" (f executing), "done"
    globalLogger,  \* NULL or TheLogger
    logChan,       \* Logger.logChan: the buffered records, oldest first
    chanCap,       \* cap(logChan); 0 before construction
    chanClosed,    \* logChan has been closed
    logger,        \* Logger.logger: the handler behind it ("none" before)
    done,          \* Logger.done has been closed
    wpc,           \* processLogs: "none", "recv", "emit", "stopped"
    wmsg,          \* the record processLogs is emitting
    emitted,       \* handler calls processLogs has completed, in order
    reported,      \* per message: the handler calls its caller completed
    pc,            \* per caller goroutine: where it is
    cfg,           \* per caller: the config of its GetLogger call in progress
    handle,        \* per caller: the *Logger its last GetLogger returned
    cur,           \* per caller: the record of the logging call in progress
    i,             \* per caller: logMsg's loop counter
    tries,         \* per caller: push attempts made in the current call
    slept,         \* per caller: ms slept in the current call
    sent,          \* per caller: logging calls it has made
    enq,           \* history: records in the order they entered logChan
    given,         \* history: per message, the record its call was made with
    discarded,     \* history: messages a package-level function ignored
    nLoggers,      \* history: Logger values constructed
    nWorkers,      \* history: processLogs goroutines started
    shutRet,       \* per caller: its Shutdown call has returned
    fault          \* "none" or the panic that ended the process

lvars == <<logChan, chanCap, chanClosed, logger, done, wpc, wmsg>>
tvars == <<pc, cfg, handle, cur, i, tries, slept, shutRet>>
hvars == <<enq, given, discarded, nLoggers, nWorkers, sent>>
svars == <<emitted, reported>>
vars == <<once, globalLogger, lvars, svars, tvars, hvars, fault>>

Init ==
    /\ once = "new"
    /\ globalLogger = NULL
    /\ logChan = << >>
    /\ chanCap = 0
    /\ chanClosed = FALSE
    /\ logger = "none"
    /\ done = FALSE
    /\ wpc = "none"
    /\ wmsg = NoLog
    /\ emitted = << >>
    /\ reported = [m \in MsgIds |-> << >>]
    /\ pc = [t \in Threads |-> "idle"]
    /\ cfg = [t \in Threads |-> NoConfig]
    /\ handle = [t \in Threads |-> NULL]
    /\ cur = [t \in Threads |-> NoLog]
    /\ i = [t \in Threads |-> 0]
    /\ tries = [t \in Threads |-> 0]
    /\ slept = [t \in Threads |-> 0]
    /\ sent = [t \in Threads |-> 0]
    /\ enq = << >>
    /\ given = [m \in MsgIds |-> NoLog]
    /\ discarded = {}
    /\ nLoggers = 0
    /\ nWorkers = 0
    /\ shutRet = [t \in Threads |-> FALSE]
    /\ fault = "none"

Running == fault = "none"

\* ------------------------------------------------------------- GetLogger

\* GetLoggerCall without the once gate: a call that finds no body running
\* runs the body, also when it has run before.
GetLoggerCall_NoOnce(t, config) ==
    /\ Running
    /\ pc[t] = "idle"
    /\ IF once = "running"
       THEN /\ pc' = [pc EXCEPT ![t] = "once"]
            /\ once' = once
       ELSE /\ pc' = [pc EXCEPT ![t] = "init"]
            /\ once' = "running"
    /\ cfg' = [cfg EXCEPT ![t] = config]
    /\ UNCHANGED <<globalLogger, lvars, svars, handle, cur, i, tries, slept,
                   shutRet, hvars, fault>>

\* GetLogger(config) is called and reaches once.Do: the first caller starts
\* the body; a caller that arrives while the body runs waits for it; a
\* caller that arrives after it skips the body and returns globalLogger.
GetLoggerCall(t, config) ==
    /\ Running
    /\ pc[t] = "idle"
    /\ CASE once = "new" ->
              /\ once' = "running"
              /\ cfg' = [cfg EXCEPT ![t] = config]
              /\ pc' = [pc EXCEPT ![t] = "init"]
              /\ UNCHANGED handle
         [] once = "running" ->
              /\ cfg' = [cfg EXCEPT ![t] = config]
              /\ pc' = [pc EXCEPT ![t] = "once"]
              /\ UNCHANGED <<once, handle>>
         [] OTHER ->
              /\ handle' = [handle EXCEPT ![t] = globalLogger]
              /\ UNCHANGED <<once, cfg, pc>>
    /\ UNCHANGED <<globalLogger, lvars, svars, cur, i, tries, slept, shutRet,
                   hvars, fault>>

\* once.Do returns to a caller that waited for the body to finish, and the
\* caller returns globalLogger.
OnceDo(t) ==
    /\ Running
    /\ pc[t] = "once"
    /\ once = "done"
    /\ handle' = [handle EXCEPT ![t] = globalLogger]
    /\ cfg' = [cfg EXCEPT ![t] = NoConfig]
    /\ pc' = [pc EXCEPT ![t] = "idle"]
    /\ UNCHANGED <<once, globalLogger, lvars, svars, cur, i, tries, slept,
                   shutRet, hvars, fault>>

\* DefaultedConfig with the test dropped: the defaults always win.
DefaultedConfig_Always(config) ==
    [BufferSize |-> DefaultBufferSize, Handler |-> "json"]

\* The defaulting at the head of the once body.
DefaultedConfig(config) ==
    IF config.BufferSize = 0 \/ config.Handler = "nil"
    THEN [BufferSize |-> DefaultBufferSize, Handler |-> "json"]
    ELSE config

\* The once body up to `go clogger.processLogs()`.  make(chan log, n) with
\* n < 0 panics; sync.Once marks itself done while the panic unwinds.
GetLoggerInit(t) ==
    /\ Running
    /\ pc[t] = "init"
    /\ LET c == DefaultedConfig(cfg[t]) IN
       IF c.BufferSize < 0
       THEN /\ fault' = "makechan: size out of range"
            /\ once' = "done"
            /\ pc' = [pc EXCEPT ![t] = "panicked"]
            /\ UNCHANGED <<lvars, nLoggers, nWorkers>>
       ELSE /\ logChan' = << >>
            /\ chanCap' = c.BufferSize
            /\ chanClosed' = FALSE
            /\ logger' = c.Handler
            /\ done' = FALSE
            /\ wpc' = "recv"
            /\ wmsg' = NoLog
            /\ nLoggers' = nLoggers + 1
            /\ nWorkers' = nWorkers + 1
            /\ pc' = [pc EXCEPT ![t] = "publish"]
            /\ UNCHANGED <<once, fault>>
    /\ UNCHANGED <<globalLogger, svars, cfg, handle, cur, i, tries, slept,
                   shutRet, enq, given, discarded, sent>>

\* `globalLogger = clogger`; the once body and once.Do return, and the
\* caller that ran the body returns globalLogger.
GetLoggerPublish(t) ==
    /\ Running
    /\ pc[t] = "publish"
    /\ globalLogger' = TheLogger
    /\ once' = "done"
    /\ handle' = [handle EXCEPT ![t] = TheLogger]
    /\ cfg' = [cfg EXCEPT ![t] = NoConfig]
    /\ pc' = [pc EXCEPT ![t] = "idle"]
    /\ UNCHANGED <<lvars, svars, cur, i, tries, slept, shutRet, hvars, fault>>

\* ---------------------------------------------------------- processLogs

\* processLogsRecv leaving the loop as soon as the channel is closed, with
\* records still buffered.
processLogsRecv_DropsPending ==
    /\ Running
    /\ wpc = "recv"
    /\ IF chanClosed
       THEN /\ done' = TRUE
            /\ wpc' = "stopped"
            /\ UNCHANGED <<wmsg, logChan>>
       ELSE /\ logChan # << >>
            /\ wmsg' = Head(logChan)
            /\ logChan' = Tail(logChan)
            /\ wpc' = "emit"
            /\ done' = done
    /\ UNCHANGED <<once, globalLogger, chanCap, chanClosed, logger, svars,
                   tvars, hvars, fault>>

\* processLogsRecv without the deferred close(l.done).
processLogsRecv_NoDone ==
    /\ Running
    /\ wpc = "recv"
    /\ IF logChan # << >>
       THEN /\ wmsg' = Head(logChan)
            /\ logChan' = Tail(logChan)
            /\ wpc' = "emit"
       ELSE /\ chanClosed
            /\ wpc' = "stopped"
            /\ UNCHANGED <<wmsg, logChan>>
    /\ UNCHANGED <<once, globalLogger, chanCap, chanClosed, logger, done,
                   svars, tvars, hvars, fault>>

\* One iteration of `for msg := range l.logChan`: take the oldest record,
\* or, the channel closed and empty, leave the loop and run the deferred
\* close(l.done).  An open empty channel blocks the goroutine.
processLogsRecv ==
    /\ Running
    /\ wpc = "recv"
    /\ IF logChan # << >>
       THEN /\ wmsg' = Head(logChan)
            /\ logChan' = Tail(logChan)
            /\ wpc' = "emit"
            /\ done' = done
       ELSE /\ chanClosed
            /\ done' = TRUE
            /\ wpc' = "stopped"
            /\ UNCHANGED <<wmsg, logChan>>
    /\ UNCHANGED <<once, globalLogger, chanCap, chanClosed, logger, svars,
                   tvars, hvars, fault>>

\* What one l.logger.LogAttrs(ctx, level, msg, attrs...) call hands to the
\* handler.
LogAttrs(level, msg, attrs) ==
    [Level |-> level, Msg |-> msg, Attrs |-> attrs]

\* l.logger.LogAttrs(context.Background(), msg.Level, msg.Msg, msg.Attrs...)
processLogsEmit ==
    /\ Running
    /\ wpc = "emit"
    /\ emitted' = Append(emitted, LogAttrs(wmsg.Level, wmsg.Msg, wmsg.Attrs))
    /\ UNCHANGED reported
    /\ wmsg' = NoLog
    /\ wpc' = "recv"
    /\ UNCHANGED <<once, globalLogger, logChan, chanCap, chanClosed, logger,
                   done, tvars, hvars, fault>>

\* ------------------------------------------------------- logging calls

\* f[1] + ... + f[n]
RECURSIVE SumTo(_, _)
SumTo(f, n) == IF n = 0 THEN 0 ELSE f[n] + SumTo(f, n - 1)

\* The message text of the logging call t makes next.
NextMsg(t) == <<t, sent[t] + 1>>

\* logWithLevel passing msg but not `attrs...` on to logMsg.
logWithLevel_DropsVariadic(t, level, attrs) ==
    /\ cur' = [cur EXCEPT ![t] = [Level |-> level, Msg |-> NextMsg(t),
                                  Attrs |-> << >>]]
    /\ given' = [given EXCEPT ![NextMsg(t)] =
                    [Level |-> level, Msg |-> NextMsg(t), Attrs |-> attrs]]
    /\ UNCHANGED discarded
    /\ i' = [i EXCEPT ![t] = 0]
    /\ tries' = [tries EXCEPT ![t] = 0]
    /\ slept' = [slept EXCEPT ![t] = 0]
    /\ pc' = [pc EXCEPT ![t] = "push"]

\* logWithLevel is entered: the record is built and logMsg starts its loop.
logWithLevel(t, level, attrs) ==
    /\ cur' = [cur EXCEPT ![t] = [Level |-> level, Msg |-> NextMsg(t),
                                  Attrs |-> attrs]]
    /\ given' = [given EXCEPT ![NextMsg(t)] =
                    [Level |-> level, Msg |-> NextMsg(t), Attrs |-> attrs]]
    /\ UNCHANGED discarded
    /\ i' = [i EXCEPT ![t] = 0]
    /\ tries' = [tries EXCEPT ![t] = 0]
    /\ slept' = [slept EXCEPT ![t] = 0]
    /\ pc' = [pc EXCEPT ![t] = "push"]

\* A caller starts a logging call with a fresh message text.
StartCall(t) ==
    /\ Running
    /\ pc[t] = "idle"
    /\ SumTo(sent, NThreads) < MaxMsgs
    /\ sent' = [sent EXCEPT ![t] = @ + 1]
    /\ UNCHANGED <<once, globalLogger, lvars, svars, cfg, handle, shutRet,
                   enq, nLoggers, nWorkers, fault>>

\* The per-level methods of the Logger a caller holds.
debug(t, attrs) ==
    StartCall(t) /\ handle[t] # NULL /\ logWithLevel(t, "Debug", attrs)

info(t, attrs) ==
    StartCall(t) /\ handle[t] # NULL /\ logWithLevel(t, "Info", attrs)

warn(t, attrs) ==
    StartCall(t) /\ handle[t] # NULL /\ logWithLevel(t, "Warn", attrs)

error(t, attrs) ==
    StartCall(t) /\ handle[t] # NULL /\ logWithLevel(t, "Error", attrs)

\* FreeCall without the nil test: the method is called on globalLogger
\* whatever it is, and the call goes on into logMsg.
FreeCall_NoNilCheck(t, level, attrs) ==
    /\ StartCall(t)
    /\ logWithLevel(t, level, attrs)

\* The package-level functions: `if globalLogger != nil { globalLogger.m() }`.
FreeCall(t, level, attrs) ==
    /\ StartCall(t)
    /\ IF globalLogger # NULL
       THEN logWithLevel(t, level, attrs)
       ELSE /\ discarded' = discarded \cup {NextMsg(t)}
            /\ UNCHANGED <<pc, cur, i, tries, slept, given>>

Debug(t, attrs) == FreeCall(t, "Debug", attrs)

Info(t, attrs) == FreeCall(t, "Info", attrs)

Warn(t, attrs) == FreeCall(t, "Warn", attrs)

Error(t, attrs) == FreeCall(t, "Error", attrs)

\* The logging call returns to its caller; its locals are gone.
Return(t) ==
    /\ pc' = [pc EXCEPT ![t] = "idle"]
    /\ cur' = [cur EXCEPT ![t] = NoLog]
    /\ i' = [i EXCEPT ![t] = 0]
    /\ tries' = [tries EXCEPT ![t] = 0]
    /\ slept' = [slept EXCEPT ![t] = 0]

\* logMsgSelect with a parameter for the two slips below: the send finds
\* room only while more than `reserve` slots are free, and after a send
\* that succeeded the call goes on at `after` instead of returning.
logMsgSelect_Slip(t, reserve, after) ==
    /\ Running
    /\ pc[t] = "push"
    /\ IF chanClosed
       THEN /\ fault' = "send on closed channel"
            /\ pc' = [pc EXCEPT ![t] = "panicked"]
            /\ tries' = [tries EXCEPT ![t] = @ + 1]
            /\ UNCHANGED <<logChan, enq, cur, i, slept>>
       ELSE /\ fault' = fault
            /\ IF Len(logChan) + reserve < chanCap
               THEN /\ logChan' = Append(logChan, cur[t])
                    /\ enq' = Append(enq, cur[t])
                    /\ pc' = [pc EXCEPT ![t] = after]
                    /\ tries' = [tries EXCEPT ![t] = @ + 1]
                    /\ UNCHANGED <<cur, i, slept>>
               ELSE /\ pc' = [pc EXCEPT ![t] = "warn"]
                    /\ tries' = [tries EXCEPT ![t] = @ + 1]
                    /\ UNCHANGED <<logChan, enq, cur, i, slept>>
    /\ UNCHANGED <<once, globalLogger, chanCap, chanClosed, logger, done,
                   wpc, wmsg, svars, cfg, handle, shutRet, given, discarded,
                   nLoggers, nWorkers, sent>>

\* The send treats a buffer with one free slot as full.
logMsgSelect_OffByOne(t) == logMsgSelect_Slip(t, 1, "idle")

\* The `return nil` after a successful send is missing: the call falls
\* through to the retry warning.
logMsgSelect_NoReturn(t) == logMsgSelect_Slip(t, 0, "warn")

\* The send takes a slot even when none is free: the buffer grows.
logMsgSelect_Grows(t) == logMsgSelect_Slip(t, -1, "idle")

\* The select has no default case: the send waits for room.
logMsgSelect_NoDefault(t) ==
    /\ Running
    /\ pc[t] = "push"
    /\ IF chanClosed
       THEN /\ fault' = "send on closed channel"
            /\ pc' = [pc EXCEPT ![t] = "panicked"]
            /\ tries' = [tries EXCEPT ![t] = @ + 1]
            /\ UNCHANGED <<logChan, enq, cur, i, slept>>
       ELSE /\ fault' = fault
            /\ Len(logChan) < chanCap
            /\ logChan' = Append(logChan, cur[t])
            /\ enq' = Append(enq, cur[t])
            /\ Return(t)
    /\ UNCHANGED <<once, globalLogger, chanCap, chanClosed, logger, done,
                   wpc, wmsg, svars, cfg, handle, shutRet, given, discarded,
                   nLoggers, nWorkers, sent>>

\* A closed-channel test in front of the select: the record is given up
\* without a word and the call returns.
logMsgSelect_ClosedDiscards(t) ==
    /\ Running
    /\ pc[t] = "push"
    /\ fault' = fault
    /\ IF chanClosed
       THEN /\ Return(t)
            /\ UNCHANGED <<logChan, enq>>
       ELSE IF Len(logChan) < chanCap
            THEN /\ logChan' = Append(logChan, cur[t])
                 /\ enq' = Append(enq, cur[t])
                 /\ Return(t)
            ELSE /\ pc' = [pc EXCEPT ![t] = "warn"]
                 /\ tries' = [tries EXCEPT ![t] = @ + 1]
                 /\ UNCHANGED <<logChan, enq, cur, i, slept>>
    /\ UNCHANGED <<once, globalLogger, chanCap, chanClosed, logger, done,
                   wpc, wmsg, svars, cfg, handle, shutRet, given, discarded,
                   nLoggers, nWorkers, sent>>

\* A full buffer makes room by giving up its oldest record.
logMsgSelect_EvictsOldest(t) ==
    /\ Running
    /\ pc[t] = "push"
    /\ IF chanClosed
       THEN /\ fault' = "send on closed channel"
            /\ pc' = [pc EXCEPT ![t] = "panicked"]
            /\ tries' = [tries EXCEPT ![t] = @ + 1]
            /\ UNCHANGED <<logChan, enq, cur, i, slept>>
       ELSE /\ fault' = fault
            /\ chanCap > 0
            /\ logChan' = IF Len(logChan) < chanCap
                          THEN Append(logChan, cur[t])
                          ELSE Append(Tail(logChan), cur[t])
            /\ enq' = Append(enq, cur[t])
            /\ Return(t)
    /\ UNCHANGED <<once, globalLogger, chanCap, chanClosed, logger, done,
                   wpc, wmsg, svars, cfg, handle, shutRet, given, discarded,
                   nLoggers, nWorkers, sent>>

\* logMsg, one pass of the select: the send panics on a closed channel,
\* succeeds when the buffer has room (the call returns nil and
\* logWithLevel returns), and otherwise the default case enters the
\* handler call that reports the retry.
logMsgSelect(t) ==
    /\ Running
    /\ pc[t] = "push"
    /\ IF chanClosed
       THEN /\ fault' = "send on closed channel"
            /\ pc' = [pc EXCEPT ![t] = "panicked"]
            /\ tries' = [tries EXCEPT ![t] = @ + 1]
            /\ UNCHANGED <<logChan, enq, cur, i, slept>>
       ELSE /\ fault' = fault
            /\ IF Len(logChan) < chanCap
               THEN /\ logChan' = Append(logChan, cur[t])
                    /\ enq' = Append(enq, cur[t])
                    /\ Return(t)
               ELSE /\ pc' = [pc EXCEPT ![t] = "warn"]
                    /\ tries' = [tries EXCEPT ![t] = @ + 1]
                    /\ UNCHANGED <<logChan, enq, cur, i, slept>>
    /\ UNCHANGED <<once, globalLogger, chanCap, chanClosed, logger, done,
                   wpc, wmsg, svars, cfg, handle, shutRet, given, discarded,
                   nLoggers, nWorkers, sent>>

\* The retry warning's handler call returns: slog.Int("attempt", i+1).
logMsgWarn(t) ==
    /\ Running
    /\ pc[t] = "warn"
    /\ reported' = [reported EXCEPT ![cur[t].Msg] =
                        Append(@, LogAttrs("Warn", "retrying log message",
                                           <<"attempt", i[t] + 1>>))]
    /\ UNCHANGED emitted
    /\ pc' = [pc EXCEPT ![t] = "sleep"]
    /\ UNCHANGED <<once, globalLogger, lvars, cfg, handle, cur, i, tries,
                   slept, shutRet, hvars, fault>>

\* logMsgSleep with the loop test `i <= maxRetries`: one pass too many.
logMsgSleep_ExtraPass(t) ==
    /\ Running
    /\ pc[t] = "sleep"
    /\ slept' = [slept EXCEPT ![t] = @ + RetryDelayMs]
    /\ i' = [i EXCEPT ![t] = @ + 1]
    /\ pc' = [pc EXCEPT ![t] = IF i[t] + 1 <= maxRetries THEN "push" ELSE "err"]
    /\ UNCHANGED <<once, globalLogger, lvars, svars, cfg, handle, cur, tries,
                   shutRet, hvars, fault>>

\* time.Sleep(10ms), then i++ and the loop test: another pass, or logMsg
\* returns the error and logWithLevel enters the handler call reporting it.
logMsgSleep(t) ==
    /\ Running
    /\ pc[t] = "sleep"
    /\ slept' = [slept EXCEPT ![t] = @ + RetryDelayMs]
    /\ i' = [i EXCEPT ![t] = @ + 1]
    /\ pc' = [pc EXCEPT ![t] = IF i[t] + 1 < maxRetries THEN "push" ELSE "err"]
    /\ UNCHANGED <<once, globalLogger, lvars, svars, cfg, handle, cur, tries,
                   shutRet, hvars, fault>>

\* logWithLevel ignoring logMsg's error: the record is gone unreported.
logWithLevelErr_Silent(t) ==
    /\ Running
    /\ pc[t] = "err"
    /\ UNCHANGED <<emitted, reported>>
    /\ Return(t)
    /\ UNCHANGED <<once, globalLogger, lvars, cfg, handle, shutRet, hvars,
                   fault>>

\* logWithLevel's "failed to log" handler call returns; the record is gone.
logWithLevelErr(t) ==
    /\ Running
    /\ pc[t] = "err"
    /\ reported' = [reported EXCEPT ![cur[t].Msg] =
                        Append(@, LogAttrs("Error", "failed to log",
                                           <<"error", "buffer full">>))]
    /\ UNCHANGED emitted
    /\ Return(t)
    /\ UNCHANGED <<once, globalLogger, lvars, cfg, handle, shutRet, hvars,
                   fault>>

\* -------------------------------------------------------------- Shutdown

\* Shutdown holding back until no logging call is in progress.
Shutdown_WaitsForCalls(t) ==
    /\ Running
    /\ pc[t] = "idle"
    /\ handle[t] # NULL
    /\ \A u \in Threads : pc[u] \notin {"push", "warn", "sleep", "err"}
    /\ IF chanClosed
       THEN /\ fault' = "close of closed channel"
            /\ pc' = [pc EXCEPT ![t] = "panicked"]
            /\ UNCHANGED chanClosed
       ELSE /\ chanClosed' = TRUE
            /\ pc' = [pc EXCEPT ![t] = "wait"]
            /\ UNCHANGED fault
    /\ UNCHANGED <<once, globalLogger, logChan, chanCap, logger, done, wpc,
                   wmsg, svars, cfg, handle, cur, i, tries, slept, shutRet,
                   hvars>>

\* Shutdown up to the wait: close(l.logChan) panics on a closed channel.
Shutdown(t) ==
    /\ Running
    /\ pc[t] = "idle"
    /\ handle[t] # NULL
    /\ IF globalLogger = NULL
       THEN UNCHANGED <<chanClosed, pc, fault>>
       ELSE IF chanClosed
            THEN /\ fault' = "close of closed channel"
                 /\ pc' = [pc EXCEPT ![t] = "panicked"]
                 /\ UNCHANGED chanClosed
            ELSE /\ chanClosed' = TRUE
                 /\ pc' = [pc EXCEPT ![t] = "wait"]
                 /\ UNCHANGED fault
    /\ UNCHANGED <<once, globalLogger, logChan, chanCap, logger, done, wpc,
                   wmsg, svars, cfg, handle, cur, i, tries, slept, shutRet,
                   hvars>>

\* Shutdown forgetting the Logger on its way out: globalLogger is nil again.
ShutdownWait_ClearsGlobal(t) ==
    /\ Running
    /\ pc[t] = "wait"
    /\ done
    /\ pc' = [pc EXCEPT ![t] = "idle"]
    /\ shutRet' = [shutRet EXCEPT ![t] = TRUE]
    /\ globalLogger' = NULL
    /\ UNCHANGED <<once, lvars, svars, cfg, handle, cur, i, tries, slept,
                   hvars, fault>>

\* `<-l.done` returns once done is closed.
ShutdownWait(t) ==
    /\ Running
    /\ pc[t] = "wait"
    /\ done
    /\ pc' = [pc EXCEPT ![t] = "idle"]
    /\ shutRet' = [shutRet EXCEPT ![t] = TRUE]
    /\ UNCHANGED <<once, globalLogger, lvars, svars, cfg, handle, cur, i,
                   tries, slept, hvars, fault>>

\* Every step that is not the start of a logging call.
Core ==
    \/ \E t \in Threads, config \in LoggerConfig : GetLoggerCall(t, config)
    \/ \E t \in Threads : OnceDo(t)
    \/ \E t \in Threads : GetLoggerInit(t)
    \/ \E t \in Threads : GetLoggerPublish(t)
    \/ \E t \in Threads : logMsgSelect(t)
    \/ \E t \in Threads : logMsgWarn(t)
    \/ \E t \in Threads : logMsgSleep(t)
    \/ \E t \in Threads : logWithLevelErr(t)
    \/ \E t \in Threads : Shutdown(t)
    \/ \E t \in Threads : ShutdownWait(t)
    \/ processLogsRecv
    \/ processLogsEmit

\* The queue, retry and shutdown protocol never reads a record's level or
\* attributes, so here callers log through info/Info without attributes and
\* records differ by their message only.
Next ==
    \/ Core
    \/ \E t \in Threads : info(t, << >>)
    \/ \E t \in Threads : Info(t, << >>)

Spec == Init /\ [][Next]_vars

\* Callers use every method and every attribute list.
NextLevels ==
    \/ Core
    \/ \E t \in Threads, attrs \in AttrLists : debug(t, attrs)
    \/ \E t \in Threads, attrs \in AttrLists : info(t, attrs)
    \/ \E t \in Threads, attrs \in AttrLists : warn(t, attrs)
    \/ \E t \in Threads, attrs \in AttrLists : error(t, attrs)
    \/ \E t \in Threads, attrs \in AttrLists : Debug(t, attrs)
    \/ \E t \in Threads, attrs \in AttrLists : Info(t, attrs)
    \/ \E t \in Threads, attrs \in AttrLists : Warn(t, attrs)
    \/ \E t \in Threads, attrs \in AttrLists : Error(t, attrs)

SpecLevels == Init /\ [][NextLevels]_vars

\* The next step of the call t has in progress.
CallStep(t) ==
    \/ OnceDo(t)
    \/ GetLoggerInit(t)
    \/ GetLoggerPublish(t)
    \/ logMsgSelect(t)
    \/ logMsgWarn(t)
    \/ logMsgSleep(t)
    \/ logWithLevelErr(t)
    \/ ShutdownWait(t)

\* The next step of processLogs (a handler call returns).
processLogs == processLogsRecv \/ processLogsEmit

\* The Go scheduler keeps every goroutine running: the step a call in
\* progress or processLogs can take is eventually taken.  Starting a call
\* is the caller's choice and carries no fairness.
Fairness ==
    /\ WF_vars(processLogs)
    /\ \A t \in Threads : WF_vars(CallStep(t))

FairSpec == Spec /\ Fairness

\* Every caller goroutine keeps running; nothing is assumed of processLogs,
\* which may stop being scheduled at any point.
CallerFairness == \A t \in Threads : WF_vars(CallStep(t))

CallerFairSpec == Spec /\ CallerFairness

\* ------------------------------------------------------------ properties

IsPrefix(s, t) == Len(s) <= Len(t) /\ s = SubSeq(t, 1, Len(s))

Msgs(seq) == {seq[k].Msg : k \in 1..Len(seq)}

NoRepeat(seq) ==
    \A a, b \in 1..Len(seq) : a # b => seq[a].Msg # seq[b].Msg

\* A logging call of t is in progress.
InCall(t) == pc[t] \in {"push", "warn", "sleep", "err"}

\* Some Shutdown call has returned.
ShutdownReturned == \E t \in Threads : shutRet[t]

\* C1: the records processLogs has handed to the handler are, at every
\* moment, an initial part of the records in the order they entered
\* logChan, none of them twice; and once a Shutdown call has returned they
\* are all of them.
C1_DrainedInOrder ==
    /\ IsPrefix(emitted, enq)
    /\ NoRepeat(emitted)
    /\ ShutdownReturned => emitted = enq

\* Shutdown has returned after two records went through a queue that held
\* both at once.
C1_Witness ==
    /\ ShutdownReturned
    /\ Len(emitted) = 2
    /\ chanCap >= 2

Submitted == {m \in MsgIds : m[2] <= sent[m[1]]} \ discarded

\* The records of one caller appear in seq in the order it logged them.
ProducerOrder(seq) ==
    \A a, b \in 1..Len(seq) :
        (a < b /\ seq[a].Msg[1] = seq[b].Msg[1]) => seq[a].Msg[2] < seq[b].Msg[2]

\* C3: while no more records have been submitted than the queue holds, no
\* caller has reported a retry or a failure, the emitted records keep each
\* caller's order, and when every call had returned before Shutdown and
\* Shutdown has returned, the handler has seen each submitted record once.
C3_NoDropWithinCapacity ==
    (chanCap > 0 /\ Cardinality(Submitted) <= chanCap) =>
        /\ \A m \in MsgIds : reported[m] = << >>
        /\ \A t \in Threads : pc[t] \notin {"warn", "sleep", "err"}
        /\ ProducerOrder(emitted)
        /\ (ShutdownReturned /\ Running /\ \A t \in Threads : ~InCall(t)) =>
               /\ Len(emitted) = Cardinality(Submitted)
               /\ Msgs(emitted) = Submitted

\* Two records, capacity two, both emitted when Shutdown returned.
C3_Witness ==
    /\ chanCap = 2
    /\ Cardinality(Submitted) = 2
    /\ ShutdownReturned
    /\ Len(emitted) = 2

\* C4 as stated: once the once gate has been passed, exactly one Logger has
\* been constructed, exactly one processLogs started, and every GetLogger
\* call that returned has returned that Logger.
C4_ExactlyOneLogger ==
    once = "done" =>
        /\ nLoggers = 1
        /\ nWorkers = 1
        /\ globalLogger = TheLogger
        /\ \A t \in Threads : handle[t] \in {NULL, TheLogger}

\* What C5 says the constructed Logger has.
FieldwiseCap(config) ==
    IF config.BufferSize > 0 THEN config.BufferSize ELSE DefaultBufferSize

FieldwiseHandler(config) ==
    IF config.Handler # "nil" THEN config.Handler ELSE "json"

\* C5 as stated: the once body constructs a Logger whose capacity and
\* handler are those of the config, each replaced by its default on its own
\* when it is zero-equivalent.
C5_FieldwiseDefaults ==
    [][\A t \in Threads :
        (pc[t] = "init" /\ pc'[t] # "init") =>
            /\ pc'[t] = "publish"
            /\ chanCap' = FieldwiseCap(cfg[t])
            /\ logger' = FieldwiseHandler(cfg[t])]_vars

\* A config with a positive BufferSize and a Handler.
Custom(config) == config.BufferSize > 0 /\ config.Handler # "nil"

LoggerState ==
    <<globalLogger, logChan, chanCap, chanClosed, logger, done, wpc, wmsg,
      nLoggers, nWorkers>>

\* A step of a GetLogger call of t, other than the steps of the once body.
GetLoggerStep(t) ==
    \/ pc[t] = "idle" /\ pc'[t] \in {"once", "init"}
    \/ pc[t] = "idle" /\ pc'[t] = "idle" /\ handle'[t] # handle[t]
    \/ pc[t] = "once" /\ pc'[t] # "once"

\* C7: once a Logger has been constructed, no step of a GetLogger call
\* starts the once body again or changes the Logger, and a call that
\* returns returns the Logger.
C7_LaterCallsChangeNothing ==
    [][nLoggers > 0 =>
        \A t \in Threads : GetLoggerStep(t) =>
            /\ UNCHANGED LoggerState
            /\ pc'[t] # "init"
            /\ handle'[t] # handle[t] => handle'[t] = TheLogger]_vars

\* Every caller holds the Logger (so a call after the first has returned)
\* while a record is buffered and another is being emitted.
C7_Witness ==
    /\ \A t \in Threads : handle[t] = TheLogger
    /\ logChan # << >>
    /\ wpc = "emit"

\* The handler calls a logging call makes itself.
RetryWarning(n) == LogAttrs("Warn", "retrying log message", <<"attempt", n>>)

FailureError == LogAttrs("Error", "failed to log", <<"error", "buffer full">>)

Retries(k) == [n \in 1..k |-> RetryWarning(n)]

Dropped(m) == Len(reported[m]) > maxRetries

\* C8: a logging call makes at most 3 push attempts; what it has reported
\* is one warning per attempt that found the queue full, numbered 1, 2, 3,
\* followed by one error exactly when all 3 did; and a record whose call
\* reported the error is not in the queue, never entered it and was not
\* emitted.
C8_BoundedRetryThenDrop ==
    /\ \A t \in Threads :
        /\ tries[t] <= maxRetries
        /\ pc[t] = "push" => reported[cur[t].Msg] = Retries(tries[t])
        /\ pc[t] = "warn" => reported[cur[t].Msg] = Retries(tries[t] - 1)
        /\ pc[t] = "sleep" => reported[cur[t].Msg] = Retries(tries[t])
        /\ pc[t] = "err" =>
               tries[t] = maxRetries /\ reported[cur[t].Msg] = Retries(maxRetries)
    /\ \A m \in MsgIds :
        /\ \/ \E k \in 0..maxRetries : reported[m] = Retries(k)
           \/ reported[m] = Append(Retries(maxRetries), FailureError)
        /\ Dropped(m) => m \notin Msgs(enq) \cup Msgs(logChan) \cup Msgs(emitted)
        /\ Dropped(m) => wmsg.Msg # m

\* A call has reported three warnings and the error, and returned.
C8_Witness ==
    \E m \in MsgIds :
        /\ reported[m] = Append(Retries(maxRetries), FailureError)
        /\ pc[m[1]] = "idle"

\* C9 as stated: a logging call sleeps at most (maxRetries-1) * 10 ms.
C9_SleepsAtMostTwice ==
    \A t \in Threads : slept[t] <= (maxRetries - 1) * RetryDelayMs

\* C10: a step of a logging call whose first push attempt finds room ends
\* the call: the record is appended to the queue, which is otherwise
\* unchanged, and the caller has made no handler call and has not slept.
C10_HappyPathReturnsAtOnce ==
    [][\A t \in Threads :
        (/\ pc[t] = "push"
         /\ tries[t] = 0
         /\ ~chanClosed
         /\ Len(logChan) < chanCap
         /\ pc'[t] # "push") =>
            /\ pc'[t] = "idle"
            /\ logChan' = Append(logChan, cur[t])
            /\ UNCHANGED <<emitted, reported>>
            /\ reported[cur[t].Msg] = << >>
            /\ slept[t] = 0
            /\ tries'[t] = 0]_vars

\* A record entered the queue on its call's first attempt while another
\* record was already buffered.
C10_Witness ==
    /\ Len(logChan) = 2
    /\ \A k \in 1..2 : reported[logChan[k].Msg] = << >>

C12_FreeFunctionsNoOpBeforeGetLogger ==
    [][\A t \in Threads, attrs \in AttrLists :
        (/\ once = "new"
         /\ \/ Debug(t, attrs)
            \/ Info(t, attrs)
            \/ Warn(t, attrs)
            \/ Error(t, attrs)) =>
            /\ discarded' = discarded \cup {NextMsg(t)}
            /\ UNCHANGED <<once, globalLogger, lvars, svars, tvars, enq,
                           given, nLoggers, nWorkers, fault>>]_vars

\* Two package-level calls were made and GetLogger was never called.
C12_Witness ==
    /\ once = "new"
    /\ Cardinality(discarded) = 2
    /\ nLoggers = 0

\* C13: a push attempt on the closed logChan ends in the panic "send on
\* closed channel" and leaves the queue and the handler's input as they
\* were; the record of a call that panicked never entered the queue and
\* was not emitted; and a Shutdown call that finds logChan closed ends in
\* the panic "close of closed channel".
C13_UsageErrorsPanic ==
    /\ [][\A t \in Threads :
            (chanClosed /\ pc[t] = "push" /\ pc'[t] # "push") =>
                /\ fault' = "send on closed channel"
                /\ pc'[t] = "panicked"
                /\ UNCHANGED <<logChan, enq, emitted, reported>>]_vars
    /\ [][\A t \in Threads :
            (chanClosed /\ Shutdown(t)) =>
                /\ fault' = "close of closed channel"
                /\ pc'[t] = "panicked"]_vars
    /\ [](\A t \in Threads :
            (pc[t] = "panicked" /\ cur[t] # NoLog) =>
                /\ cur[t].Msg \notin Msgs(enq) \cup Msgs(emitted)
                /\ cur[t].Msg \notin discarded
                /\ wmsg # cur[t])

\* A logging call made after Shutdown had returned has panicked on its
\* first push attempt.
C13_Witness ==
    \E t \in Threads :
        /\ ShutdownReturned
        /\ fault = "send on closed channel"
        /\ pc[t] = "panicked"
        /\ tries[t] = 1
        /\ emitted # << >>

\* What processLogs holds between taking a record and the handler's return.
InHand == IF wpc = "emit" THEN <<wmsg>> ELSE << >>

\* C14: every record that entered logChan is emitted, in the hands of
\* processLogs, or still queued, in that order; a push attempt that finds
\* logChan full leaves it as it was; and logChan changes only by a push
\* appending the caller's record or by processLogs taking the oldest one.
C14_DropsOnlyAtProducer ==
    /\ [](enq = emitted \o InHand \o logChan)
    /\ [][\A t \in Threads :
            (/\ pc[t] = "push"
             /\ ~chanClosed
             /\ Len(logChan) >= chanCap
             /\ pc'[t] # "push") =>
                /\ logChan' = logChan
                /\ pc'[t] = "warn"]_vars
    /\ [][logChan' # logChan =>
            \/ \E t \in Threads :
                  /\ pc[t] = "push"
                  /\ pc'[t] = "idle"
                  /\ logChan' = Append(logChan, cur[t])
            \/ /\ wpc = "recv"
               /\ wpc' = "emit"
               /\ wmsg' = Head(logChan)
               /\ logChan' = Tail(logChan)]_vars

\* One record was dropped by its caller while another filled the queue;
\* the one that had entered was emitted and processLogs has stopped.
C14_Witness ==
    \E m \in MsgIds :
        /\ Dropped(m)
        /\ Len(emitted) = 1
        /\ logChan = << >>
        /\ wpc = "stopped"

\* The message of the logging call t made last.
LastMsg(t) == <<t, sent[t]>>

\* The records in logChan.
Queued == {logChan[k] : k \in 1..Len(logChan)}

\* C15 as stated: when a logging call has returned having found room at
\* once, and its caller has not gone on, the record it was made with is
\* still in logChan for the caller to receive.
C15_RecordStillQueued ==
    \A t \in Threads :
        (/\ pc[t] = "idle"
         /\ sent[t] > 0
         /\ LastMsg(t) \in Msgs(enq)
         /\ reported[LastMsg(t)] = << >>
         /\ ~chanClosed) =>
            given[LastMsg(t)] \in Queued

\* given'[NextMsg(t)] is the record of a call of t made at `level`.
Given(t, level, attrs) ==
    given'[NextMsg(t)] = [Level |-> level, Msg |-> NextMsg(t), Attrs |-> attrs]

\* C16: every record processLogs has handed or is handing to the handler
\* is the record its call was made with, and that record has the level of
\* the method called and the caller's message and attribute sequence.
C16_EmittedAsGiven ==
    /\ [](\A k \in 1..Len(emitted) : emitted[k] = given[emitted[k].Msg])
    /\ [](wpc = "emit" => wmsg = given[wmsg.Msg])
    /\ [][\A t \in Threads, attrs \in AttrLists :
            /\ debug(t, attrs) => Given(t, "Debug", attrs)
            /\ info(t, attrs) => Given(t, "Info", attrs)
            /\ warn(t, attrs) => Given(t, "Warn", attrs)
            /\ error(t, attrs) => Given(t, "Error", attrs)
            /\ (globalLogger # NULL /\ Debug(t, attrs)) => Given(t, "Debug", attrs)
            /\ (globalLogger # NULL /\ Info(t, attrs)) => Given(t, "Info", attrs)
            /\ (globalLogger # NULL /\ Warn(t, attrs)) => Given(t, "Warn", attrs)
            /\ (globalLogger # NULL /\ Error(t, attrs)) => Given(t, "Error", attrs)]_vars

\* Two records of different levels were emitted, one of them with an
\* attribute given twice.
C16_Witness ==
    /\ Len(emitted) = 2
    /\ emitted[1].Level = "Error"
    /\ emitted[1].Attrs = <<"a", "a", "b">>
    /\ emitted[2].Level = "Debug"

\* C17: done is closed exactly while processLogs has stopped; processLogs
\* stops only from its receive, with logChan closed and empty and every
\* record that entered handed to the handler, closing done in that step;
\* and once it has stopped it takes and emits nothing and done stays closed.
C17_WorkerStopsOnlyWhenDrained ==
    /\ [](done <=> wpc = "stopped")
    /\ [](wpc = "stopped" =>
            /\ chanClosed
            /\ logChan = << >>
            /\ wmsg = NoLog
            /\ emitted = enq)
    /\ [][(wpc # "stopped" /\ wpc' = "stopped") =>
            /\ wpc = "recv"
            /\ chanClosed
            /\ logChan = << >>
            /\ ~done
            /\ done']_vars
    /\ [][wpc = "stopped" =>
            UNCHANGED <<wpc, wmsg, logChan, emitted, done>>]_vars

\* processLogs has stopped after emitting two records through a queue of
\* capacity one.
C17_Witness ==
    /\ wpc = "stopped"
    /\ done
    /\ chanCap = 1
    /\ Len(emitted) = 2

\* The messages t has submitted to the Logger, in the order of its calls.
SubmittedBy(t) ==
    SelectSeq([k \in 1..sent[t] |-> <<t, k>>], LAMBDA m : m \notin discarded)

\* The messages of a sequence of records.
MsgSeq(seq) == [k \in 1..Len(seq) |-> seq[k].Msg]

\* t is the only producer and has called Shutdown, which has returned,
\* after the last of its logging calls.
SingleProducerDone(t) ==
    /\ shutRet[t]
    /\ pc[t] = "idle"
    /\ \A u \in Threads \ {t} : sent[u] = 0

\* C18: when a single producer has submitted its records and its Shutdown
\* has returned, the emitted records are its submitted records without the
\* dropped ones, in submission order, each as it was given; a record is
\* dropped exactly when its call reported 3 retry warnings, and then its
\* call reported exactly one failure error after them; a record that was
\* emitted was reported by fewer than 3 warnings and no error.
C18_SingleProducerSubsequence ==
    \A t \in Threads :
        SingleProducerDone(t) =>
            /\ MsgSeq(emitted) =
                   SelectSeq(SubmittedBy(t), LAMBDA m : ~Dropped(m))
            /\ \A k \in 1..Len(emitted) : emitted[k] = given[emitted[k].Msg]
            /\ \A k \in 1..Len(SubmittedBy(t)) :
                   LET m == SubmittedBy(t)[k] IN
                   /\ m \notin Msgs(emitted) <=>
                          Len(reported[m]) >= maxRetries
                   /\ m \notin Msgs(emitted) =>
                          reported[m] = Append(Retries(maxRetries), FailureError)
                   /\ m \in Msgs(emitted) =>
                          \E n \in 0..(maxRetries - 1) : reported[m] = Retries(n)

\* A single producer submitted two records to a queue of capacity one; the
\* second was dropped, the first emitted, and its Shutdown has returned.
C18_Witness ==
    \E t \in Threads :
        /\ SingleProducerDone(t)
        /\ Len(SubmittedBy(t)) = 2
        /\ Dropped(<<t, 2>>)
        /\ MsgSeq(emitted) = << <<t, 1>> >>

\* The goroutines inside a handler call: callers reporting a retry or a
\* failure, and processLogs emitting a record.
InHandler ==
    {t \in Threads : pc[t] \in {"warn", "err"}}
        \cup (IF wpc = "emit" THEN {0} ELSE {})

\* C19 as stated: at most one goroutine is inside a handler call.
C19_OneEmitAtATime == Cardinality(InHandler) <= 1

\* C20: logChan never holds more records than its capacity, and once the
\* Logger is constructed no step changes the capacity.
C20_CapacityFixedAndRespected ==
    /\ [](Len(logChan) >= 0 /\ Len(logChan) <= chanCap)
    /\ [](nLoggers > 0 => chanCap > 0)
    /\ [][nLoggers > 0 => chanCap' = chanCap]_vars

\* A push found the queue of capacity one full, after logChan was filled
\* and a later GetLogger call asked for another capacity.
C20_Witness ==
    /\ chanCap = 1
    /\ Len(logChan) = 1
    /\ \E t \in Threads : pc[t] = "warn"
    /\ \A t \in Threads : handle[t] = TheLogger

\* The logging call of t has a push attempt still to make.
PushAhead(t) ==
    \/ pc[t] = "push"
    \/ pc[t] \in {"warn", "sleep"} /\ i[t] + 1 < maxRetries

\* C21: a caller that holds the Logger can start Shutdown whatever the
\* other callers are doing; while logChan is closed, a logging call with a
\* push attempt still to make keeps it to make until that attempt panics
\* with "send on closed channel", and its record is not in the queue and
\* not emitted; and a panic of the closed queue has happened only with
\* logChan closed by a Shutdown and a logging call or a further Shutdown
\* running into it.
C21_ShutdownDoesNotWaitForCalls ==
    /\ [](\A t \in Threads :
            (Running /\ pc[t] = "idle" /\ handle[t] # NULL) =>
                ENABLED Shutdown(t))
    /\ [][\A t \in Threads :
            (chanClosed /\ PushAhead(t)) =>
                \/ PushAhead(t)'
                \/ /\ fault' = "send on closed channel"
                   /\ pc'[t] = "panicked"
                   /\ UNCHANGED <<logChan, emitted, cur>>]_vars
    /\ [](\A t \in Threads :
            (chanClosed /\ (PushAhead(t) \/ pc[t] = "panicked")
                        /\ cur[t] # NoLog) =>
                /\ cur[t].Msg \notin Msgs(emitted) \cup Msgs(logChan)
                /\ wmsg.Msg # cur[t].Msg)
    /\ [](fault = "send on closed channel" =>
            /\ chanClosed
            /\ \E t \in Threads : pc[t] = "panicked" /\ cur[t] # NoLog)
    /\ [](fault = "close of closed channel" =>
            /\ chanClosed
            /\ \E t \in Threads : pc[t] = "panicked" /\ cur[t] = NoLog)

\* Shutdown closed logChan after a call's first attempt had found it full;
\* the call's second attempt has panicked.
C21_Witness ==
    \E t \in Threads :
        /\ fault = "send on closed channel"
        /\ pc[t] = "panicked"
        /\ tries[t] = 2
        /\ reported[cur[t].Msg] = Retries(1)

\* C22: once a Shutdown call has returned, the one Logger is still the
\* process-wide one, with logChan closed and processLogs stopped; no step
\* of a GetLogger call starts the once body or changes the Logger, and a
\* call that returns returns that Logger; and a step of Debug, Info, Warn
\* or Error enters the Logger's method instead of giving the message up.
C22_SingletonNeverRecreated ==
    /\ [](ShutdownReturned =>
            /\ once = "done"
            /\ globalLogger = TheLogger
            /\ nLoggers = 1
            /\ nWorkers = 1
            /\ chanClosed
            /\ wpc = "stopped"
            /\ \A t \in Threads : pc[t] \notin {"init", "publish"})
    /\ [][ShutdownReturned =>
            \A t \in Threads :
                /\ GetLoggerStep(t) =>
                       /\ handle'[t] = TheLogger
                       /\ pc'[t] = "idle"
                       /\ UNCHANGED LoggerState
                /\ \A attrs \in AttrLists :
                       (\/ Debug(t, attrs)
                        \/ Info(t, attrs)
                        \/ Warn(t, attrs)
                        \/ Error(t, attrs)) =>
                           /\ pc'[t] = "push"
                           /\ cur'[t].Msg = NextMsg(t)
                           /\ discarded' = discarded]_vars

\* A caller whose Shutdown has returned is inside a logging call on the
\* shut-down Logger, which every caller holds.
C22_Witness ==
    \E t \in Threads :
        /\ shutRet[t]
        /\ pc[t] = "push"
        /\ globalLogger = TheLogger
        /\ nLoggers = 1
        /\ wpc = "stopped"
        /\ \A u \in Threads : handle[u] = TheLogger
====
